---- MODULE Spec2Model ----
(***************************************************************************)
(* Observer position and velocity on the Earth                             *)
(* (src/jpl_request/observer_pos.rs): pvobs, gmst, equequ,                 *)
(* lat_alt_to_parallax, geodetic_to_parallax, body_fixed_coord.            *)
(*                                                                         *)
(* f64 quantities are fixed-point integers:                                *)
(*   days            ticks, TicksPerDay ticks per day (10 s)               *)
(*   seconds of time centiseconds (SecScale per second)                    *)
(*   radians         microradians (RadScale per radian), DPI = 2*pi        *)
(*   dimensionless   millionths (ONE)                                      *)
(*   degrees         thousandths (DegScale)                                *)
(*   metres          decimetres                                            *)
(*   AU, AU/day      1e-10 AU                                              *)
(* Products are formed by MulDiv, which never leaves 32 bits.              *)
(***************************************************************************)
EXTENDS Integers, Sequences, FiniteSets, TLC

VARIABLES gm, par, rc,
          pc, tmjd, longitude, latitude, height, provider,
          dxbf, dvbf, tut, gast, rot, rot1, rotmat, dx, dv, args

vars == <<gm, par, rc, pc, tmjd, longitude, latitude, height, provider,
          dxbf, dvbf, tut, gast, rot, rot1, rotmat, dx, dv, args>>

pvobsVars == <<pc, tmjd, longitude, latitude, height, provider,
               dxbf, dvbf, tut, gast, rot, rot1, rotmat, dx, dv, args>>

-----------------------------------------------------------------------------
(* Fixed-point scales *)

TicksPerDay == 86400 \div 10
SecScale == 10 * 10
RadScale == 10 ^ 6
ONE == 10 ^ 6
DegScale == 10 ^ 3

(* Bounds of the explored inputs *)

DaySpan == 1
FracSteps == 8
GmstTol == 4
EllipsoidTol == 8
RotTol == 5
LengthTol == 16
PerpTol == 1
MaxDut1 == 1
LatSteps == 24

-----------------------------------------------------------------------------
(* f64 primitives.  Those written as functions take their arguments by
   value. *)

Abs(x) == IF x < 0 THEN -x ELSE x

Sgn(x) == IF x < 0 THEN -1 ELSE IF x > 0 THEN 1 ELSE 0

Limb == 2 ^ 15

(* The product a * b, 0 <= a, b < 2^30, as four limbs of 15 bits, most
   significant first *)
WideMul[a \in Int, b \in Int] ==
    LET a1 == a \div Limb
        a0 == a % Limb
        b1 == b \div Limb
        b0 == b % Limb
        t0 == a0 * b0
        k1 == a1 * b0 + a0 * b1 + t0 \div Limb
        k2 == a1 * b1 + k1 \div Limb
    IN  <<k2 \div Limb, k2 % Limb, k1 % Limb, t0 % Limb>>

(* Limbs divided by d, 0 < d <= 2^16: short division, remainder dropped *)
WideDiv[w \in Seq(Int), d \in Int] ==
    LET n3 == w[1]
        n2 == (n3 % d) * Limb + w[2]
        n1 == (n2 % d) * Limb + w[3]
        n0 == (n1 % d) * Limb + w[4]
    IN  <<n3 \div d, n2 \div d, n1 \div d, n0 \div d>>

(* The value of limbs that fit 31 bits *)
WideInt[w \in Seq(Int)] == (w[2] * Limb + w[3]) * Limb + w[4]

(* a * b / (d1 * d2), rounded toward zero; d1, d2 <= 2^16, |b| < 2^30 *)
MulDiv[a \in Int, b \in Int, d1 \in Int, d2 \in Int] ==
    Sgn(a) * Sgn(b) *
    ((Abs(a) \div (d1 * d2)) * Abs(b)
     + WideInt[WideDiv[WideDiv[WideMul[Abs(a) % (d1 * d2), Abs(b)], d1], d2]])

(* a * b for two numbers in millionths *)
FMul[a \in Int, b \in Int] == MulDiv[a, b, 1000, 1000]

(* The first k decimals of r / d, 0 <= r < d, 10 * d < 2^31 *)
Decimals[r \in Int, d \in Int, k \in Nat] ==
    IF k = 0 THEN 0
    ELSE ((r * 10) \div d) * 10 ^ (k - 1) + Decimals[(r * 10) % d, d, k - 1]

(* n / d in millionths, rounded toward zero *)
FDiv[n \in Int, d \in Int] ==
    Sgn(n) * Sgn(d) *
    ((Abs(n) \div Abs(d)) * ONE + Decimals[Abs(n) % Abs(d), Abs(d), 6])

(* f64::sqrt of s in millionths, 1/4 <= s <= 9/4: Newton's iteration from
   (1 + s) / 2 *)
NewtonStep[s \in Int, x \in Int] == (x + FDiv[s, x]) \div 2

FSqrt[s \in Int] ==
    NewtonStep[s, NewtonStep[s, NewtonStep[s, NewtonStep[s, (ONE + s) \div 2]]]]

(* f64::floor of a day count, in ticks *)
Floor(t) == (t \div TicksPerDay) * TicksPerDay

(* f64::trunc of a day count, in ticks *)
Trunc(t) == IF t >= 0 THEN Floor(t) ELSE -Floor(-t)

(* f64::fract: self - self.trunc() *)
Fract(t) == t - Trunc(t)

-----------------------------------------------------------------------------
(* Constants (super::super::constants and the literals of gmst) *)

DPI == 6283185
T2000 == 445344480
C0 == 2411055
C1 == 864018481
C2 == 93104000
C3 == -6200
RAP == 1002737909
RapScale == 10 ^ 9
RapRoot == 2 * 5 ^ 6
InnerScale == 10 ^ 7

-----------------------------------------------------------------------------
(* gmst *)

gmst_itjm(tjm) == Floor(tjm)

(* x * t, t = (itjm - T2000) / 36525 centuries *)
TimesT(x, tjm) == MulDiv[x, gmst_itjm(tjm) - T2000, 36525, TicksPerDay]

(* ((C3 * t + C2) * t + C1) * t + C0, in centiseconds; the two small
   coefficients are carried in 1e-9 s. *)
gmst0_seconds(tjm) ==
    LET inner == TimesT(C3, tjm) + C2
    IN  TimesT(TimesT(inner, tjm) \div InnerScale + C1, tjm) + C0

(* gmst0 *= DPI / 86400 *)
gmst0_radians(tjm) == MulDiv[gmst0_seconds(tjm), DPI, 86400 \div SecScale, SecScale * SecScale]

(* h = tjm.fract() * DPI *)
gmst_h(tjm) == MulDiv[Fract(tjm), DPI, TicksPerDay, 1]

(* gmst0 + h * RAP *)
gmst_raw(tjm) == gmst0_radians(tjm) + MulDiv[gmst_h(tjm), RAP, RapRoot, RapScale \div RapRoot]

(* i = (gmst / DPI).floor() as i64; if gmst < 0 { i = i - 1 } *)
gmst_i(g) == IF g < 0 THEN g \div DPI - 1 ELSE g \div DPI

(* gmst -= i as f64 * DPI *)
gmst_adjust(g) == g - gmst_i(g) * DPI

gmst(tjm) == gmst_adjust(gmst_raw(tjm))

-----------------------------------------------------------------------------
(* f64::sin, f64::cos, f64::to_radians, f64::atan2 *)

(* sin r and cos r for |r| <= pi/4, x2 = r * r *)
SinPoly(r, x2) ==
    FMul[r, ONE - FMul[x2, ONE - FMul[x2, ONE - x2 \div 42] \div 20] \div 6]

CosPoly(x2) ==
    ONE - FMul[x2, ONE - FMul[x2, ONE - FMul[x2, ONE - x2 \div 56] \div 30] \div 12] \div 2

(* The nearest quarter turn of x, and what is left of x *)
Quadrant(x) == ((4 * (x % DPI) + DPI \div 2) \div DPI) % 4

Residue(x) == (x % DPI) - (((4 * (x % DPI) + DPI \div 2) \div DPI) * DPI) \div 4

(* <<sin, cos>> of the angle q quarter turns + r, from sin r and cos r *)
SinCosTurned(q, s, c) ==
    CASE q = 0 -> <<s, c>>
      [] q = 1 -> <<c, -s>>
      [] q = 2 -> <<-s, -c>>
      [] q = 3 -> <<-c, s>>

SinCosResidue(q, r, x2) == SinCosTurned(q, SinPoly(r, x2), CosPoly(x2))

(* <<x.sin(), x.cos()>> *)
SinCos[x \in Int] == SinCosResidue(Quadrant(x), Residue(x), FMul[Residue(x), Residue(x)])

Sin[x \in Int] == SinCos[x][1]

Cos[x \in Int] == SinCos[x][2]

(* degrees (thousandths) to radians *)
ToRadians[deg \in Int] == MulDiv[deg, DPI, 360, DegScale]

(* The angle atan2(y, x) is kept as its direction <<cos, sin>>: <<x, y>>
   over its length. *)
Direction(x, y, len) == <<FDiv[x, len], FDiv[y, len]>>

Atan2[y \in Int, x \in Int] == Direction(x, y, FSqrt[FMul[x, x] + FMul[y, y]])

-----------------------------------------------------------------------------
(* lat_alt_to_parallax, geodetic_to_parallax, body_fixed_coord *)

EARTH_MAJOR_AXIS == 63781370
EARTH_MINOR_AXIS == 63567523
ERAU == 426352

axis_ratio == FDiv[EARTH_MINOR_AXIS, EARTH_MAJOR_AXIS]

(* lines 134-137: <<rho_cos_phi, rho_sin_phi>> from <<lat.sin(), lat.cos()>>,
   u as <<u.cos(), u.sin()>> and height / EARTH_MAJOR_AXIS *)
parallax_no_ratio(sc, u, hr) ==
    <<u[1] + FMul[hr, sc[2]], u[2] + FMul[hr, sc[1]]>>

parallax(sc, u, hr) ==
    <<u[1] + FMul[hr, sc[2]], FMul[axis_ratio, u[2]] + FMul[hr, sc[1]]>>

(* line 132: u = (lat.sin() * axis_ratio).atan2(lat.cos()) *)
parallax_u(sc, h) ==
    parallax(sc, Atan2[FMul[sc[1], axis_ratio], sc[2]], FDiv[h, EARTH_MAJOR_AXIS])

lat_alt_to_parallax(lat, h) == parallax_u(SinCos[lat], h)

geodetic_to_parallax(lat, h) == lat_alt_to_parallax(ToRadians[lat], h)

(* lines 175-179, p = <<pxy1, pz1>>, sc = <<lon_radians.sin(), lon_radians.cos()>> *)
body_fixed_vector(p, sc) ==
    <<FMul[FMul[ERAU, p[1]], sc[2]], FMul[FMul[ERAU, p[1]], sc[1]], FMul[ERAU, p[2]]>>

body_fixed_coord(lon, lat, h) ==
    body_fixed_vector(geodetic_to_parallax(lat, h), SinCos[ToRadians[lon]])

-----------------------------------------------------------------------------
(* nalgebra: Vector3, Matrix3.  A [[f64; 3]; 3] array and a Matrix3 are
   both <<m[1], m[2], m[3]>>; for the array m[i] is its i-th inner array,
   for the Matrix3 m[i][j] is the element of row i and column j. *)

Zeros == <<0, 0, 0>>

(* Vector3::cross *)
Cross(a, b) ==
    <<FMul[a[2], b[3]] - FMul[a[3], b[2]],
      FMul[a[3], b[1]] - FMul[a[1], b[3]],
      FMul[a[1], b[2]] - FMul[a[2], b[1]]>>

(* Matrix3::from([[f64; 3]; 3]): each inner array is a column *)
Matrix3From(a) ==
    <<<<a[1][1], a[2][1], a[3][1]>>,
      <<a[1][2], a[2][2], a[3][2]>>,
      <<a[1][3], a[2][3], a[3][3]>>>>

Transpose(m) ==
    <<<<m[1][1], m[2][1], m[3][1]>>,
      <<m[1][2], m[2][2], m[3][2]>>,
      <<m[1][3], m[2][3], m[3][3]>>>>

RowByCol(a, b, i, j) ==
    FMul[a[i][1], b[1][j]] + FMul[a[i][2], b[2][j]] + FMul[a[i][3], b[3][j]]

(* Matrix3 * Matrix3 *)
MatMul(a, b) ==
    <<<<RowByCol(a, b, 1, 1), RowByCol(a, b, 1, 2), RowByCol(a, b, 1, 3)>>,
      <<RowByCol(a, b, 2, 1), RowByCol(a, b, 2, 2), RowByCol(a, b, 2, 3)>>,
      <<RowByCol(a, b, 3, 1), RowByCol(a, b, 3, 2), RowByCol(a, b, 3, 3)>>>>

(* Matrix3::component_mul *)
ComponentMul(a, b) ==
    <<<<FMul[a[1][1], b[1][1]], FMul[a[1][2], b[1][2]], FMul[a[1][3], b[1][3]]>>,
      <<FMul[a[2][1], b[2][1]], FMul[a[2][2], b[2][2]], FMul[a[2][3], b[2][3]]>>,
      <<FMul[a[3][1], b[3][1]], FMul[a[3][2], b[3][2]], FMul[a[3][3], b[3][3]]>>>>

RowByVec(m, v, i) == FMul[m[i][1], v[1]] + FMul[m[i][2], v[2]] + FMul[m[i][3], v[3]]

(* Matrix3 * Vector3 *)
MatVec(m, v) == <<RowByVec(m, v, 1), RowByVec(m, v, 2), RowByVec(m, v, 3)>>

-----------------------------------------------------------------------------
(* The collaborators of super::super::ref_system, after section 6 of the
   specification: obleq, nutn80 (its leading term), rotmt, rotpn. *)

RADSEC == 48481

(* x * t for t = (tjm - T2000) / 36525 centuries *)
PerCentury[x \in Int, tjm \in Int] == MulDiv[x, tjm - T2000, 36525, TicksPerDay]

(* mean obliquity of date *)
obleq(tjm) == 409093 - PerCentury[227, tjm]

(* nutation in longitude, in 1e-4 arcseconds: -17.1996" sin(Omega) *)
nutn80(tjm) == FMul[-171996, Sin[2182439 - PerCentury[33757045, tjm]]]

(* The array of the rotation about axis k (0, 1 or 2) with sine s and
   cosine c *)
RotationArray(k, s, c) ==
    CASE k = 0 -> <<<<ONE, 0, 0>>, <<0, c, s>>, <<0, -s, c>>>>
      [] k = 1 -> <<<<c, 0, -s>>, <<0, ONE, 0>>, <<s, 0, c>>>>
      [] k = 2 -> <<<<c, s, 0>>, <<-s, c, 0>>, <<0, 0, ONE>>>>

(* rotation by alpha about axis k *)
rotmt(alpha, k) == RotationArray(k, Sin[alpha], Cos[alpha])

(* equatorial of date -> mean ecliptic J2000, as an array: the obliquity
   of date about the first axis, then the precession in longitude since
   J2000 about the third.  With this array pvobs gives the vectors that
   pvobs_test expects, to 1e-4 of their length. *)
rotpn(tjm) == MatMul(rotmt(PerCentury[24382, tjm], 2), rotmt(obleq(tjm), 0))

-----------------------------------------------------------------------------
(* equequ *)

equequ(tjm) == FMul[MulDiv[RADSEC, nutn80(tjm), 10000, 10000], Cos[obleq(tjm)]]

-----------------------------------------------------------------------------
(* pvobs *)

(* What download_short_from_jpl returns: Err, or Ok with the dataset *)
Unavailable == [ok |-> FALSE, dut1 |-> 0]

(* The correction datasets: UT1 - UTC of up to MaxDut1 ticks either way *)
Datasets == {[ok |-> TRUE, dut1 |-> k] : k \in (-MaxDut1)..MaxDut1}

(* Epoch::from_mjd_utc(tmjd).to_ut1(ut1_provider).to_mjd_utc_days() *)
to_ut1(t, ut1_provider) == t + ut1_provider.dut1

omega == <<0, 0, MulDiv[DPI, RAP, RapRoot, RapScale \div RapRoot]>>

pvobs_dvbf_swapped(p) == Cross(p, omega)

pvobs_dvbf(p) == Cross(omega, p)

pvobs_gast_utc(tut_, tmjd_) == gmst(tmjd_) + equequ(tmjd_)

pvobs_gast(tut_, tmjd_) == gmst(tut_) + equequ(tmjd_)

pvobs_rot(gast_) == rotmt(-gast_, 2)

pvobs_rot1_mat(rot1_) == Transpose(Matrix3From(rot1_))

pvobs_rot_mat(rot_) == Transpose(Matrix3From(rot_))

pvobs_rotmat_swapped(rot1_, rot_) == MatMul(pvobs_rot_mat(rot_), pvobs_rot1_mat(rot1_))

pvobs_rotmat_cwise(rot1_, rot_) == ComponentMul(pvobs_rot1_mat(rot1_), pvobs_rot_mat(rot_))

pvobs_rotmat(rot1_, rot_) == MatMul(pvobs_rot1_mat(rot1_), pvobs_rot_mat(rot_))

NoArgs == [gmst |-> 0, equequ |-> 0, rotpn |-> 0]

NoMatrix == <<Zeros, Zeros, Zeros>>

PvobsEpochs == {d * TicksPerDay + f * (TicksPerDay \div FracSteps) :
                    d \in {51000, 57028}, f \in {0, FracSteps \div 2 - 1}}

Longitudes == {0, 203744}

Latitudes == {-45000, 20707}

Heights == {0, 30677}

(* A call with its arguments; what the provider will deliver to this call
   is the environment's choice. *)
PvobsInit ==
    /\ pc = "call"
    /\ tmjd \in PvobsEpochs
    /\ longitude \in Longitudes
    /\ latitude \in Latitudes
    /\ height \in Heights
    /\ provider \in Datasets \cup {Unavailable}
    /\ dxbf = Zeros /\ dvbf = Zeros /\ tut = 0 /\ gast = 0
    /\ rot = NoMatrix /\ rot1 = NoMatrix /\ rotmat = NoMatrix
    /\ dx = Zeros /\ dv = Zeros /\ args = NoArgs

(* No call of pvobs *)
PvobsIdle ==
    /\ pc = "idle"
    /\ tmjd = 0 /\ longitude = 0 /\ latitude = 0 /\ height = 0
    /\ provider = Unavailable
    /\ dxbf = Zeros /\ dvbf = Zeros /\ tut = 0 /\ gast = 0
    /\ rot = NoMatrix /\ rot1 = NoMatrix /\ rotmat = NoMatrix
    /\ dx = Zeros /\ dv = Zeros /\ args = NoArgs

(* lines 22-31 *)
PvobsEntry ==
    /\ pc = "call"
    /\ dx' = Zeros /\ dv' = Zeros
    /\ dxbf' = body_fixed_coord(longitude, latitude, height)
    /\ dvbf' = pvobs_dvbf(dxbf')
    /\ pc' = "ut1"
    /\ UNCHANGED <<gm, par, rc, tmjd, longitude, latitude, height, provider,
                   tut, gast, rot, rot1, rotmat, args>>

(* lines 35-38, the download succeeding *)
PvobsUt1 ==
    /\ pc = "ut1"
    /\ provider.ok
    /\ tut' = to_ut1(tmjd, provider)
    /\ pc' = "rotate"
    /\ UNCHANGED <<gm, par, rc, tmjd, longitude, latitude, height, provider,
                   dxbf, dvbf, gast, rot, rot1, rotmat, dx, dv, args>>

(* line 36, the download failing: unwrap() panics *)
PvobsUnwrapPanic ==
    /\ pc = "ut1"
    /\ ~provider.ok
    /\ pc' = "panicked"
    /\ UNCHANGED <<gm, par, rc, tmjd, longitude, latitude, height, provider,
                   dxbf, dvbf, tut, gast, rot, rot1, rotmat, dx, dv, args>>

(* lines 40-59 *)
PvobsTransform ==
    /\ pc = "rotate"
    /\ args' = [gmst |-> tut, equequ |-> tmjd, rotpn |-> tmjd]
    /\ gast' = pvobs_gast(tut, tmjd)
    /\ rot' = pvobs_rot(gast')
    /\ rot1' = rotpn(tmjd)
    /\ rotmat' = pvobs_rotmat(rot1', rot')
    /\ dx' = MatVec(rotmat', dxbf)
    /\ dv' = MatVec(rotmat', dvbf)
    /\ pc' = "returned"
    /\ UNCHANGED <<gm, par, rc, tmjd, longitude, latitude, height, provider,
                   dxbf, dvbf, tut>>

-----------------------------------------------------------------------------
(* The epochs explored: the days around MJD 0, around 1998-07-06
   (MJD 51000), around J2000 and around the epoch of the tests, each at
   FracSteps instants of the day. *)

AnchorDays == {0, 51000, 51544, 57028}

Days == {a + k : a \in AnchorDays, k \in (-DaySpan)..DaySpan}

Epochs == {d * TicksPerDay + f * (TicksPerDay \div FracSteps) :
               d \in Days, f \in 0..(FracSteps - 1)}

GmIdle == [pc |-> "idle", tjm |-> 0, itjm |-> 0, frac |-> 0, out |-> 0]

ParIdle == [pc |-> "idle", lat |-> 0, height |-> 0, rho_cos_phi |-> 0, rho_sin_phi |-> 0]

RcIdle == [pc |-> "idle", rot |-> NoMatrix, rot1 |-> NoMatrix, dxbf |-> Zeros,
           dvbf |-> Zeros, rot_mat |-> NoMatrix, rotmat |-> NoMatrix,
           dx |-> Zeros, dv |-> Zeros]

(* gmst called on an epoch *)

GmstInit ==
    /\ \E t \in Epochs :
          gm = [pc |-> "call", tjm |-> t, itjm |-> 0, frac |-> 0, out |-> 0]
    /\ par = ParIdle /\ rc = RcIdle /\ PvobsIdle

GmstEval ==
    /\ gm.pc = "call"
    /\ gm' = [gm EXCEPT !.pc = "ret",
                        !.itjm = gmst_itjm(gm.tjm),
                        !.frac = Fract(gm.tjm),
                        !.out = gmst(gm.tjm)]
    /\ UNCHANGED <<par, rc, pvobsVars>>

GmstNext == GmstEval

SpecGmst == GmstInit /\ [][GmstNext]_vars

(* geodetic_to_parallax called on a latitude and a height *)

ParLatitudes == {-90 * DegScale + k * ((180 * DegScale) \div LatSteps) : k \in 0..LatSteps}

ParHeights == {-4300, 0, 30677}

ParInit ==
    /\ \E lat \in ParLatitudes, h \in ParHeights :
          par = [ParIdle EXCEPT !.pc = "call", !.lat = lat, !.height = h]
    /\ gm = GmIdle /\ rc = RcIdle /\ PvobsIdle

ParEval ==
    /\ par.pc = "call"
    /\ par' = [par EXCEPT !.pc = "ret",
                          !.rho_cos_phi = geodetic_to_parallax(par.lat, par.height)[1],
                          !.rho_sin_phi = geodetic_to_parallax(par.lat, par.height)[2]]
    /\ UNCHANGED <<gm, rc, pvobsVars>>

ParNext == ParEval

SpecParallax == ParInit /\ [][ParNext]_vars

(* Lines 50-57 of pvobs on the arrays its collaborators may return:
   rotmt a rotation about the third axis, rotpn a rotation about the third
   axis after one about the first.  The sines and cosines are those that
   the fixed-point scale holds exactly. *)

UnitPairs == {<<0, ONE>>, <<ONE, 0>>, <<-ONE, 0>>,
              <<6 * 10 ^ 5, 8 * 10 ^ 5>>, <<-8 * 10 ^ 5, 6 * 10 ^ 5>>,
              <<96 * 10 ^ 4, -28 * 10 ^ 4>>}

EarthArrays == {RotationArray(2, u[1], u[2]) : u \in UnitPairs}

FrameArrays == {MatMul(RotationArray(2, u[1], u[2]), RotationArray(0, w[1], w[2])) :
                    u \in UnitPairs, w \in {<<0, ONE>>, <<6 * 10 ^ 5, 8 * 10 ^ 5>>,
                                            <<-28 * 10 ^ 4, 96 * 10 ^ 4>>}}

RcPositions == {body_fixed_coord(203744, 20707, 30677), body_fixed_coord(0, -45000, 0)}

RcInit ==
    /\ \E r \in EarthArrays, r1 \in FrameArrays, p \in RcPositions :
          rc = [RcIdle EXCEPT !.pc = "call", !.rot = r, !.rot1 = r1,
                              !.dxbf = p, !.dvbf = pvobs_dvbf(p)]
    /\ gm = GmIdle /\ par = ParIdle /\ PvobsIdle

RcCompose ==
    /\ rc.pc = "call"
    /\ rc' = [rc EXCEPT !.pc = "ret",
                        !.rot_mat = pvobs_rot_mat(rc.rot),
                        !.rotmat = pvobs_rotmat(rc.rot1, rc.rot),
                        !.dx = MatVec(pvobs_rotmat(rc.rot1, rc.rot), rc.dxbf),
                        !.dv = MatVec(pvobs_rotmat(rc.rot1, rc.rot), rc.dvbf)]
    /\ UNCHANGED <<gm, par, pvobsVars>>

RcNext == RcCompose

SpecRot == RcInit /\ [][RcNext]_vars

(* pvobs *)

Init == gm = GmIdle /\ par = ParIdle /\ rc = RcIdle /\ PvobsInit

Next == PvobsEntry \/ PvobsUt1 \/ PvobsUnwrapPanic \/ PvobsTransform

Spec == Init /\ [][Next]_vars

-----------------------------------------------------------------------------
(* Properties *)

Dot(a, b) == FMul[a[1], b[1]] + FMul[a[2], b[2]] + FMul[a[3], b[3]]

Det(m) == Dot(m[1], Cross(m[2], m[3]))

Identity == <<<<ONE, 0, 0>>, <<0, ONE, 0>>, <<0, 0, ONE>>>>

Near(m, n, tol) == \A i, j \in 1..3 : Abs(m[i][j] - n[i][j]) <= tol

(* transpose(m) * m = I and det(m) = 1, to RotTol *)
IsRotation(m) ==
    /\ Near(MatMul(Transpose(m), m), Identity, RotTol)
    /\ Abs(Det(m) - ONE) <= RotTol

(* The distance of two angles on the circle *)
AngularDistance(a, b) ==
    IF ((a - b) % DPI) < DPI - ((a - b) % DPI)
    THEN (a - b) % DPI
    ELSE DPI - ((a - b) % DPI)

(* full_circle * 0.00273790934 *)
DailyGain == MulDiv[DPI, RAP - RapScale, RapRoot, RapScale \div RapRoot]

(* C1: a call of pvobs for which the correction dataset cannot be obtained
   ends by returning an error to its caller, and no call panics. *)
C1_ErrorReturned ==
    /\ pc # "panicked"
    /\ (~provider.ok /\ pc \notin {"call", "ut1"}) => pc = "failed"

(* C2: the angle gmst returns lies in [0, 2 pi), whatever the sign of the
   angle before normalisation. *)
C2_GmstInCircle ==
    gm.pc = "ret" => 0 <= gm.out /\ gm.out < DPI

(* C3: in a call of pvobs that returns, R_earth is the rotation by -gast
   about the third axis, R_frame the matrix of rotpn at the epoch, the
   matrix applied is R = transpose(R_frame) * transpose(R_earth) in that
   order, and position and velocity returned are R * dxbf and R * dvbf with
   that one R. *)
C3_ComposedRotation ==
    pc = "returned" =>
        /\ rot = rotmt(-gast, 2)
        /\ rot1 = rotpn(tmjd)
        /\ \A i, j \in 1..3 :
              rotmat[i][j] = FMul[Matrix3From(rot1)[1][i], Matrix3From(rot)[j][1]]
                           + FMul[Matrix3From(rot1)[2][i], Matrix3From(rot)[j][2]]
                           + FMul[Matrix3From(rot1)[3][i], Matrix3From(rot)[j][3]]
        /\ \A i \in 1..3 :
              /\ dx[i] = FMul[rotmat[i][1], dxbf[1]] + FMul[rotmat[i][2], dxbf[2]]
                       + FMul[rotmat[i][3], dxbf[3]]
              /\ dv[i] = FMul[rotmat[i][1], dvbf[1]] + FMul[rotmat[i][2], dvbf[2]]
                       + FMul[rotmat[i][3], dvbf[3]]

(* A call that returned, with matrices that do not commute and an observer
   off the axes *)
C3_Witness ==
    /\ pc = "returned"
    /\ rotmat # MatMul(Transpose(Matrix3From(rot)), Transpose(Matrix3From(rot1)))
    /\ dxbf[1] # 0 /\ dxbf[2] # 0 /\ dxbf[3] # 0
    /\ dx # dxbf

(* C4: when the arrays of rotmt and rotpn are orthonormal of determinant 1,
   so are the Earth-rotation matrix and the composed matrix R, and the
   position and velocity returned have the lengths of the Earth-fixed
   ones. *)
C4_RotationsPreserved ==
    (/\ rc.pc = "ret"
     /\ IsRotation(Matrix3From(rc.rot))
     /\ IsRotation(Matrix3From(rc.rot1))) =>
        /\ IsRotation(rc.rot_mat)
        /\ IsRotation(rc.rotmat)
        /\ Abs(Dot(rc.dx, rc.dx) - Dot(rc.dxbf, rc.dxbf)) <= LengthTol
        /\ Abs(Dot(rc.dv, rc.dv) - Dot(rc.dvbf, rc.dvbf)) <= LengthTol

(* Two rotations by angles that are no multiple of a quarter turn, composed *)
C4_Witness ==
    /\ rc.pc = "ret"
    /\ IsRotation(Matrix3From(rc.rot))
    /\ IsRotation(Matrix3From(rc.rot1))
    /\ rc.rot[1][1] = 6 * 10 ^ 5
    /\ rc.rot1[2][2] \notin {0, ONE, -ONE}
    /\ rc.rotmat # Identity
    /\ rc.dx # rc.dxbf

(* C5: a day later gmst is larger by full_circle * 0.00273790934, modulo
   the full circle, to GmstTol. *)
C5_DailyGain ==
    gm.pc = "ret" =>
        AngularDistance(gmst(gm.tjm + TicksPerDay), gm.out + DailyGain) <= GmstTol

(* C6: at height 0 the pair returned satisfies
   rho_cos_phi^2 + (rho_sin_phi / axis_ratio)^2 = 1, to EllipsoidTol. *)
C6_OnEllipsoid ==
    (par.pc = "ret" /\ par.height = 0) =>
        Abs(FMul[par.rho_cos_phi, par.rho_cos_phi]
            + FMul[FDiv[par.rho_sin_phi, axis_ratio], FDiv[par.rho_sin_phi, axis_ratio]]
            - ONE) <= EllipsoidTol

(* Height 0 at latitude 45 degrees south, away from equator and poles *)
C6_Witness ==
    /\ par.pc = "ret" /\ par.height = 0 /\ par.lat = -45 * DegScale
    /\ par.rho_sin_phi < 0 /\ par.rho_cos_phi > 0
    /\ par.rho_cos_phi # -par.rho_sin_phi

(* C8: in a call of pvobs that returns, gmst is evaluated at the UT1 epoch
   the resolver gives for the input epoch, equequ and rotpn at the input
   epoch itself, and gast is the sum of the two terms. *)
C8_TimeScales ==
    pc = "returned" =>
        /\ tut = tmjd + provider.dut1
        /\ args = [gmst |-> tmjd + provider.dut1, equequ |-> tmjd, rotpn |-> tmjd]
        /\ gast = gmst(tmjd + provider.dut1) + equequ(tmjd)
        /\ rot1 = rotpn(tmjd)

(* A call that returned with UT1 and UTC apart, and gmst telling them apart *)
C8_Witness ==
    /\ pc = "returned"
    /\ provider.dut1 # 0
    /\ args.gmst # args.equequ
    /\ gmst(tut) # gmst(tmjd)

(* C9: the Earth-fixed velocity is omega x p for omega = (0, 0, w),
   w = full_circle * 1.00273790934, that is (-w y, w x, 0): its third
   component is zero and it is orthogonal to p. *)
C9_RigidRotation ==
    pc \in {"ut1", "rotate", "returned", "panicked"} =>
        /\ omega = <<0, 0, DPI + DailyGain>>
        /\ dvbf = <<-FMul[omega[3], dxbf[2]], FMul[omega[3], dxbf[1]], 0>>
        /\ dvbf[3] = 0
        /\ Abs(Dot(dvbf, dxbf)) <= PerpTol

(* An observer off the axes, with a velocity along both horizontal axes *)
C9_Witness ==
    /\ pc = "ut1"
    /\ dxbf[1] # 0 /\ dxbf[2] # 0 /\ dxbf[3] # 0
    /\ dvbf[1] # 0 /\ dvbf[2] # 0

(* C10: the whole days and the fraction of a day that gmst takes from its
   epoch add up to the epoch, with 0 <= fraction < 1. *)
C10_WholeAndFraction ==
    gm.pc = "ret" =>
        /\ gm.itjm + gm.frac = gm.tjm
        /\ 0 <= gm.frac /\ gm.frac < TicksPerDay

====
